---- MODULE Spec2Model ----
(***************************************************************************)
(* The "games" endpoint group of the lichess client                        *)
(* (src/lichess_client/endpoints/games.py).  Every coroutine of the class  *)
(* shapes one HTTP request (URL, headers, query parameters), awaits one    *)
(* call on the client's transport and returns what the await produced.     *)
(* Python values are tagged records, so that a bool, an int, a str, an     *)
(* enum member and None stay distinct in a parameter map.                  *)
(***************************************************************************)
EXTENDS Integers, Sequences, FiniteSets, TLC

VARIABLES client, calls, sent, responses

vars == <<client, calls, sent, responses>>

(* ---------------------------- bounds ----------------------------------- *)
\* longest list of VariantTypes a caller passes as `variant`
MaxVariants == 2
\* number of coroutines of one Games object in flight together (SpecConc)
NumCalls == 2

(* ------------------------- Python values ------------------------------- *)
None == [t |-> "None"]
PyStr(s) == [t |-> "str", s |-> s]
PyInt(i) == [t |-> "int", i |-> i]
PyBool(b) == [t |-> "bool", b |-> b]
PyList(items) == [t |-> "list", items |-> items]

\* members of the enumerations of lichess_client.utils.enums
VariantTypes == {[t |-> "VariantTypes", value |-> v] : v \in {"blitz", "chess960"}}
ColorType == {[t |-> "ColorType", value |-> v] : v \in {"white", "black"}}
GET == [t |-> "RequestMethods", value |-> "GET"]
StatusTypes == {"SUCCESS", "FAILURE", "ERROR"}

\* URL templates of lichess_client.utils.hrefs: literal text and {field}s
Lit(s) == [lit |-> s]
Field(f) == [field |-> f]
GAMES_EXPORT_ONE_URL == <<Lit("/game/export/"), Field("gameId")>>
GAMES_EXPORT_USER_URL == <<Lit("/games/user/"), Field("username")>>

\* str.format(**kw): every {field} of the template replaced by kw[field]
RECURSIVE Format(_, _)
Format(template, kw) ==
    IF template = <<>> THEN ""
    ELSE LET seg == Head(template)
             text == IF "lit" \in DOMAIN seg THEN seg.lit ELSE kw[seg.field]
         IN text \o Format(Tail(template), kw)

\* sep.join(strings)
RECURSIVE Join(_, _)
Join(strings, sep) ==
    IF strings = <<>> THEN ""
    ELSE IF Len(strings) = 1 THEN strings[1]
    ELSE strings[1] \o sep \o Join(Tail(strings), sep)

\* json.dumps of a bool (or None)
JsonDumps(v) ==
    IF v.t = "bool" THEN (IF v.b THEN "true" ELSE "false") ELSE "null"

(* ----------------------- export_one_game -------------------------------- *)
Headers == ("Content-Type" :> "application/json")

OneGameParametersAllTrue ==
    [moves |-> PyStr("true"), pgnInJson |-> PyStr("true"), tags |-> PyStr("true"),
     clocks |-> PyStr("true"), evals |-> PyStr("true"), opening |-> PyStr("true"),
     literate |-> PyStr("true")]

\* the parameter map export_one_game builds
OneGameParameters ==
    [moves |-> PyStr("true"), pgnInJson |-> PyStr("false"), tags |-> PyStr("true"),
     clocks |-> PyStr("true"), evals |-> PyStr("true"), opening |-> PyStr("true"),
     literate |-> PyStr("true")]

ExportOneGameRequestStreamed(game_id) ==
    [fn |-> "request_stream", method |-> GET,
     url |-> Format(GAMES_EXPORT_ONE_URL, [gameId |-> game_id]),
     headers |-> Headers, params |-> OneGameParameters]

\* the transport call export_one_game makes
ExportOneGameRequest(game_id) ==
    [fn |-> "request", method |-> GET,
     url |-> Format(GAMES_EXPORT_ONE_URL, [gameId |-> game_id]),
     headers |-> Headers, params |-> OneGameParameters]

(* -------------------- export_games_of_a_user ---------------------------- *)
\* the defaults of the signature, for the arguments a caller leaves out
UserGamesDefaults ==
    [since |-> None, until |-> None, limit |-> None, vs |-> None, rated |-> None,
     variant |-> None, color |-> None, analysed |-> None, ongoing |-> PyBool(FALSE)]

Bind(kwargs) == kwargs @@ UserGamesDefaults

Falsy(v) ==
    \/ v = None
    \/ v.t = "int" /\ v.i = 0
    \/ v.t = "bool" /\ ~v.b
    \/ v.t = "str" /\ v.s = ""

IfFalsy(value, sentinel) == IF Falsy(value) THEN PyStr(sentinel) ELSE value

\* 'sentinel' if value is None else value
IfNone(value, sentinel) == IF value = None THEN PyStr(sentinel) ELSE value

NormalizeVariantSpaces(variant) ==
    IF variant.t = "list"
    THEN PyStr(Join([i \in 1..Len(variant.items) |-> variant.items[i].value], " "))
    ELSE IF variant \in VariantTypes THEN PyStr(variant.value)
    ELSE variant

\* a list of members becomes the comma-joined values, a member its value
NormalizeVariant(variant) ==
    IF variant.t = "list"
    THEN PyStr(Join([i \in 1..Len(variant.items) |-> variant.items[i].value], ","))
    ELSE IF variant \in VariantTypes THEN PyStr(variant.value)
    ELSE variant

ColorParamOmitted(color) ==
    IF color = None THEN <<>> ELSE [color |-> PyStr(color.value)]

\* the 'color' entry of the parameter map
ColorParam(color) ==
    [color |-> IF color = None THEN PyStr("null") ELSE PyStr(color.value)]

OngoingParamStr(ongoing) ==
    [ongoing |-> PyStr(IF ongoing.b THEN "True" ELSE "False")]

\* the 'ongoing' entry of the parameter map
OngoingParam(ongoing) == [ongoing |-> PyStr(JsonDumps(ongoing))]

WithVsSentinel(parameters, vs) ==
    ("vs" :> (IF vs = None THEN PyStr("null") ELSE vs)) @@ parameters

\* if vs is not None: parameters['vs'] = vs
WithVs(parameters, vs) ==
    IF vs # None THEN ("vs" :> vs) @@ parameters ELSE parameters

\* the parameter map export_games_of_a_user builds from its bound arguments
UserGamesParameters(a) ==
    LET variant == NormalizeVariant(a.variant)
        parameters ==
            [since |-> IfNone(a.since, "Account creation date"),
             until |-> IfNone(a.until, "Now"),
             max |-> IfNone(a.limit, "null"),
             rated |-> IfNone(a.rated, "null"),
             perfType |-> IfNone(variant, "null"),
             analysed |-> IfNone(a.analysed, "null"),
             moves |-> PyStr("true"),
             pgnInJson |-> PyStr("false"),
             tags |-> PyStr("true"),
             clocks |-> PyStr("true"),
             evals |-> PyStr("true"),
             opening |-> PyStr("true")]
            @@ ColorParam(a.color) @@ OngoingParam(a.ongoing)
    IN WithVs(parameters, a.vs)

ExportGamesOfAUserRequestSingleShot(kwargs) ==
    [fn |-> "request", method |-> GET,
     url |-> Format(GAMES_EXPORT_USER_URL, [username |-> kwargs.username]),
     headers |-> Headers, params |-> UserGamesParameters(Bind(kwargs))]

\* the transport call export_games_of_a_user makes
ExportGamesOfAUserRequest(kwargs) ==
    [fn |-> "request_stream", method |-> GET,
     url |-> Format(GAMES_EXPORT_USER_URL, [username |-> kwargs.username]),
     headers |-> Headers, params |-> UserGamesParameters(Bind(kwargs))]

(* --------------------------- the callers -------------------------------- *)
Usernames == {"amasend", "german11"}
GameIds == {"q7zvsdUF", "Haw7aw6f"}
Omitted == [t |-> "omitted"]

RECURSIVE SeqsUpTo(_, _)
SeqsUpTo(S, n) ==
    IF n = 0 THEN {<<>>}
    ELSE LET shorter == SeqsUpTo(S, n - 1)
         IN shorter \cup {Append(q, x) : q \in shorter, x \in S}

VariantArgs == VariantTypes \cup {PyList(q) : q \in SeqsUpTo(VariantTypes, MaxVariants)}

\* keyword arguments: every optional filter is left out or given a value
Supplied(choice) ==
    LET given == {k \in DOMAIN choice : k = "username" \/ choice[k] # Omitted}
    IN [k \in given |-> choice[k]]

UserGamesKwargs ==
    {Supplied(ch) : ch \in
        [username : Usernames,
         since : {Omitted, PyInt(0)},
         until : {Omitted, PyInt(1)},
         limit : {Omitted, PyInt(10)},
         vs : {Omitted, PyStr(""), PyStr("someuser")},
         rated : {Omitted, PyBool(FALSE), PyBool(TRUE)},
         variant : {Omitted} \cup VariantArgs,
         color : {Omitted} \cup ColorType,
         analysed : {Omitted, PyBool(FALSE)},
         ongoing : {Omitted, PyBool(FALSE), PyBool(TRUE)}]}

UserGamesKwargsFew ==
    {Supplied(ch) : ch \in
        [username : Usernames,
         vs : {Omitted, PyStr("someuser")}]}

Stubs == {"export_games_by_ids", "stream_current_games", "get_ongoing_games",
          "get_current_tv_games"}

Invocation(op, kwargs) == [op |-> op, kwargs |-> kwargs, pc |-> "ready", result |-> None]

OneGameInvocations == {Invocation("export_one_game", [game_id |-> g]) : g \in GameIds}
StubInvocations == {Invocation(op, <<>>) : op \in Stubs}

Invocations ==
    OneGameInvocations \cup StubInvocations
    \cup {Invocation("export_games_of_a_user", kw) : kw \in UserGamesKwargs}

InvocationsFew ==
    OneGameInvocations \cup StubInvocations
    \cup {Invocation("export_games_of_a_user", kw) : kw \in UserGamesKwargsFew}

(* --------------------------- the state ---------------------------------- *)
\* client    : self._client, set by Games.__init__
\* calls[c]  : coroutine c of the Games object: operation, arguments, position, outcome
\* sent[c]   : the transport calls coroutine c has made, in order
\* responses[c] : what the transport has produced for the call c awaits
NoResponse == [t |-> "pending"]

InitWith(n, invocations) ==
    /\ client = "client"
    /\ calls \in [1..n -> invocations]
    /\ sent = [c \in 1..n |-> <<>>]
    /\ responses = [c \in 1..n |-> NoResponse]

Init == InitWith(1, Invocations)
InitConc == InitWith(NumCalls, InvocationsFew)

Ready(c, op) == calls[c].pc = "ready" /\ calls[c].op = op

\* await self._client.<fn>(...): the call is handed to the transport
Await(c, request) ==
    /\ sent' = [sent EXCEPT ![c] = Append(@, request @@ [on |-> client])]
    /\ calls' = [calls EXCEPT ![c].pc = "await"]
    /\ UNCHANGED <<client, responses>>

ExportOneGame(c) ==
    /\ Ready(c, "export_one_game")
    /\ Await(c, ExportOneGameRequest(calls[c].kwargs.game_id))

ExportGamesOfAUser(c) ==
    /\ Ready(c, "export_games_of_a_user")
    /\ Await(c, ExportGamesOfAUserRequest(calls[c].kwargs))

\* a body of `pass`: the coroutine returns None
Pass(c) ==
    /\ calls' = [calls EXCEPT ![c].pc = "returned", ![c].result = None]
    /\ UNCHANGED <<client, sent, responses>>

ExportGamesByIds(c) == Ready(c, "export_games_by_ids") /\ Pass(c)
StreamCurrentGames(c) == Ready(c, "stream_current_games") /\ Pass(c)
GetOngoingGames(c) == Ready(c, "get_ongoing_games") /\ Pass(c)
GetCurrentTvGames(c) == Ready(c, "get_current_tv_games") /\ Pass(c)

\* the transport finishes the awaited call: a Response of some status, or an exception
TransportOutcomes(c) ==
    {[t |-> "Response", of |-> <<c, Len(sent[c])>>, status |-> s] : s \in StatusTypes}
    \cup {[t |-> "Exception", of |-> <<c, Len(sent[c])>>, kind |-> "TransportError"]}

TransportCompletes(c) ==
    /\ calls[c].pc = "await"
    /\ responses[c] = NoResponse
    /\ \E r \in TransportOutcomes(c) : responses' = [responses EXCEPT ![c] = r]
    /\ UNCHANGED <<client, calls, sent>>

Finish(c, outcome) ==
    /\ calls' = [calls EXCEPT
                   ![c].pc = IF outcome.t = "Exception" THEN "raised" ELSE "returned",
                   ![c].result = outcome]
    /\ UNCHANGED <<client, sent, responses>>

ResumeWithLatest(c) ==
    /\ calls[c].pc = "await"
    /\ responses[c] # NoResponse
    /\ \E d \in DOMAIN calls : responses[d] # NoResponse /\ Finish(c, responses[d])

\* the coroutine resumes with what its await produced; `return response`
Resume(c) ==
    /\ calls[c].pc = "await"
    /\ responses[c] # NoResponse
    /\ Finish(c, responses[c])

Next ==
    \E c \in DOMAIN calls :
        \/ ExportOneGame(c)
        \/ ExportGamesOfAUser(c)
        \/ ExportGamesByIds(c)
        \/ StreamCurrentGames(c)
        \/ GetOngoingGames(c)
        \/ GetCurrentTvGames(c)
        \/ TransportCompletes(c)
        \/ Resume(c)

Spec == Init /\ [][Next]_vars
SpecConc == InitConc /\ [][Next]_vars

(* ------------------------- vocabulary of the claims --------------------- *)
IsOneGame(c) == calls[c].op = "export_one_game"
IsUserGames(c) == calls[c].op = "export_games_of_a_user"
IsStub(c) == calls[c].op \in Stubs
Issued(c) == calls[c].pc # "ready"
Given(c, arg) == arg \in DOMAIN calls[c].kwargs
Arg(c, arg) == calls[c].kwargs[arg]
Params(c) == sent[c][1].params
UserIssued(c) == IsUserGames(c) /\ Issued(c)

Restrict(f, keys) == [k \in DOMAIN f \cap keys |-> f[k]]

\* s.split(sep) for a one-character sep
RECURSIVE SplitFrom(_, _, _, _, _)
SplitFrom(s, sep, i, cur, acc) ==
    IF i > Len(s) THEN Append(acc, cur)
    ELSE IF SubSeq(s, i, i) = sep
         THEN SplitFrom(s, sep, i + 1, "", Append(acc, cur))
         ELSE SplitFrom(s, sep, i + 1, cur \o SubSeq(s, i, i), acc)

Split(s, sep) == SplitFrom(s, sep, 1, "", <<>>)

InclusionFlags == {"moves", "pgnInJson", "tags", "clocks", "evals", "opening", "literate"}
UserInclusionFlags == InclusionFlags \ {"literate"}
UserKeys ==
    {"since", "until", "max", "rated", "perfType", "color", "analysed", "ongoing"}
    \cup UserInclusionFlags

\* the call made exactly one transport call, through fn, and no other
OneTransportCall(c, fn, url) ==
    /\ Len(sent[c]) = 1
    /\ sent[c][1].fn = fn
    /\ sent[c][1].method = GET
    /\ sent[c][1].url = url
    /\ sent[c][1].headers = ("Content-Type" :> "application/json")
    /\ DOMAIN sent[c][1].headers = {"Content-Type"}

\* what the call returned is the Response its own transport call produced
ReturnsItsResponse(c) ==
    calls[c].pc = "returned" =>
        /\ calls[c].result = responses[c]
        /\ calls[c].result.t = "Response"
        /\ calls[c].result.of = <<c, 1>>
        /\ Len(sent[c]) = 1

\* C1: export_one_game makes exactly one single-shot Transport.request call (GET,
\* the game URL, Content-Type: application/json), none before it is invoked, and
\* returns that call's Response unchanged whatever its status.
C1_OneGameSingleShot ==
    \A c \in DOMAIN calls : IsOneGame(c) =>
        /\ ~Issued(c) => sent[c] = <<>>
        /\ Issued(c) => OneTransportCall(c, "request", "/game/export/" \o Arg(c, "game_id"))
        /\ ReturnsItsResponse(c)
        /\ calls[c].pc = "raised" => calls[c].result = responses[c]

C1_Witness ==
    \E c \in DOMAIN calls :
        /\ IsOneGame(c)
        /\ calls[c].pc = "returned"
        /\ calls[c].result.status = "FAILURE"

\* C2: export_games_of_a_user makes exactly one streaming Transport.request_stream
\* call and no single-shot one (GET, the user URL), for every combination of
\* filters, and returns that call's Response unchanged.
C2_UserGamesStreaming ==
    \A c \in DOMAIN calls : IsUserGames(c) =>
        /\ ~Issued(c) => sent[c] = <<>>
        /\ Issued(c) =>
              OneTransportCall(c, "request_stream", "/games/user/" \o Arg(c, "username"))
        /\ ReturnsItsResponse(c)

C2_Witness ==
    \E c \in DOMAIN calls :
        /\ IsUserGames(c)
        /\ calls[c].pc = "returned"
        /\ calls[c].result.status = "SUCCESS"
        /\ Given(c, "vs") /\ Given(c, "variant") /\ ~Given(c, "since")

\* C3 as stated: the parameter map of export_one_game has exactly the seven
\* inclusion flags and every one of them is the string "true".
C3_AllFlagsTrue ==
    \A c \in DOMAIN calls : IsOneGame(c) /\ Issued(c) =>
        /\ DOMAIN Params(c) = InclusionFlags
        /\ \A k \in DOMAIN Params(c) : Params(c)[k] = PyStr("true")

\* C3 amended: the parameter map of export_one_game has exactly the seven
\* inclusion flags; pgnInJson is the string "false" and the other six are "true".
C3_FlagsFixed ==
    \A c \in DOMAIN calls : IsOneGame(c) /\ Issued(c) =>
        /\ DOMAIN Params(c) = InclusionFlags
        /\ Params(c).pgnInJson = PyStr("false")
        /\ \A k \in InclusionFlags \ {"pgnInJson"} : Params(c)[k] = PyStr("true")

C3_Witness ==
    \E c \in DOMAIN calls : IsOneGame(c) /\ Issued(c) /\ Arg(c, "game_id") = "Haw7aw6f"

OngoingText(c) ==
    IF Given(c, "ongoing") /\ Arg(c, "ongoing") = PyBool(TRUE) THEN "true" ELSE "false"

\* C4 as stated: the parameter map of export_games_of_a_user has ongoing as the
\* boolean's text and all seven inclusion flags, literate among them.
C4_SevenFlags ==
    \A c \in DOMAIN calls : UserIssued(c) =>
        /\ "ongoing" \in DOMAIN Params(c)
        /\ Params(c).ongoing = PyStr(OngoingText(c))
        /\ InclusionFlags \subseteq DOMAIN Params(c)

\* C4 amended: the parameter map of export_games_of_a_user has ongoing as the
\* boolean's text ("true", or "false" when false or omitted) and six inclusion
\* flags with fixed values (pgnInJson "false", moves, tags, clocks, evals and
\* opening "true"); it has no literate key.
C4_OngoingAndSixFlags ==
    \A c \in DOMAIN calls : UserIssued(c) =>
        /\ "ongoing" \in DOMAIN Params(c)
        /\ Params(c).ongoing = PyStr(OngoingText(c))
        /\ UserInclusionFlags \subseteq DOMAIN Params(c)
        /\ "literate" \notin DOMAIN Params(c)
        /\ Params(c).pgnInJson = PyStr("false")
        /\ \A k \in UserInclusionFlags \ {"pgnInJson"} : Params(c)[k] = PyStr("true")

C4_Witness ==
    \E c \in DOMAIN calls :
        /\ UserIssued(c)
        /\ Given(c, "ongoing") /\ Arg(c, "ongoing") = PyBool(TRUE)
        /\ Given(c, "rated") /\ Given(c, "color")

\* C5: a supplied vs is sent under the key vs with the supplied value, an omitted
\* vs leaves the map without a vs key, and the rest of the map is what the same
\* call without vs sends.
C5_VsOnlyWhenSupplied ==
    \A c \in DOMAIN calls : UserIssued(c) =>
        /\ Given(c, "vs") => "vs" \in DOMAIN Params(c) /\ Params(c).vs = Arg(c, "vs")
        /\ ~Given(c, "vs") => "vs" \notin DOMAIN Params(c)
        /\ DOMAIN Params(c) \ {"vs"} = UserKeys
        /\ Restrict(Params(c), UserKeys)
              = UserGamesParameters(
                    Bind(Restrict(calls[c].kwargs, DOMAIN calls[c].kwargs \ {"vs"})))

C5_Witness ==
    \E c \in DOMAIN calls :
        /\ UserIssued(c)
        /\ Given(c, "vs") /\ Arg(c, "vs") = PyStr("someuser")
        /\ Given(c, "limit")

\* the argument, its key in the map and its sentinel
Sentinels ==
    {<<"since", "since", "Account creation date">>, <<"until", "until", "Now">>,
     <<"limit", "max", "null">>, <<"rated", "rated", "null">>,
     <<"analysed", "analysed", "null">>}

\* the string a supplied variant is sent as: the member's value, or the members'
\* values in the list's order with a comma between them
SerializesVariant(text, variant) ==
    IF variant \in VariantTypes THEN text = variant.value
    ELSE IF variant.items = <<>> THEN text = ""
    ELSE Split(text, ",") = [i \in 1..Len(variant.items) |-> variant.items[i].value]

\* C6: since, until, max, rated, perfType and analysed are in every request; an
\* omitted argument's key carries its sentinel, a supplied one carries the
\* supplied value (a variant in its serialized form) and not the sentinel.
C6_SentinelsForOmitted ==
    \A c \in DOMAIN calls : UserIssued(c) =>
        /\ {"since", "until", "max", "rated", "perfType", "analysed"}
              \subseteq DOMAIN Params(c)
        /\ \A e \in Sentinels :
              IF Given(c, e[1])
              THEN Params(c)[e[2]] = Arg(c, e[1]) /\ Params(c)[e[2]] # PyStr(e[3])
              ELSE Params(c)[e[2]] = PyStr(e[3])
        /\ IF Given(c, "variant")
           THEN /\ Params(c).perfType.t = "str"
                /\ Params(c).perfType # PyStr("null")
                /\ SerializesVariant(Params(c).perfType.s, Arg(c, "variant"))
           ELSE Params(c).perfType = PyStr("null")

C6_Witness ==
    \E c \in DOMAIN calls :
        /\ UserIssued(c)
        /\ Given(c, "since") /\ Arg(c, "since") = PyInt(0)
        /\ Given(c, "rated") /\ Arg(c, "rated") = PyBool(FALSE)
        /\ ~Given(c, "until") /\ ~Given(c, "limit") /\ ~Given(c, "analysed")

\* C7: a list of variants is sent as one perfType string, the members' values
\* joined with commas in the list's order; a single variant is sent as its bare
\* value; no other key of the request comes from the variant.
C7_VariantCommaJoined ==
    \A c \in DOMAIN calls : UserIssued(c) /\ Given(c, "variant") =>
        /\ Params(c).perfType.t = "str"
        /\ SerializesVariant(Params(c).perfType.s, Arg(c, "variant"))
        /\ DOMAIN Params(c) \ {"vs"} = UserKeys

C7_Witness ==
    \E c \in DOMAIN calls :
        /\ UserIssued(c)
        /\ Given(c, "variant")
        /\ Arg(c, "variant").t = "list"
        /\ Len(Arg(c, "variant").items) = 2
        /\ Arg(c, "variant").items[1] # Arg(c, "variant").items[2]
        /\ Params(c).perfType = PyStr("chess960,blitz")

\* C8 as stated: a stub operation makes no transport call and never completes
\* normally: it ends by raising a "not implemented" error.
C8_StubsRaiseNotImplemented ==
    \A c \in DOMAIN calls : IsStub(c) =>
        /\ sent[c] = <<>>
        /\ calls[c].pc # "returned"
        /\ Issued(c) =>
              /\ calls[c].pc = "raised"
              /\ calls[c].result.t = "Exception"
              /\ calls[c].result.kind = "NotImplementedError"

\* C9 as stated: the color key is in the map only when color is supplied.
C9_ColorOnlyWhenSupplied ==
    \A c \in DOMAIN calls : UserIssued(c) =>
        /\ Given(c, "color") =>
              "color" \in DOMAIN Params(c) /\ Params(c).color = PyStr(Arg(c, "color").value)
        /\ ~Given(c, "color") => "color" \notin DOMAIN Params(c)

\* C9 amended: the color key is in every request; it carries the member's
\* string value when color is supplied and the sentinel 'null' when it is omitted.
C9_ColorAlwaysSent ==
    \A c \in DOMAIN calls : UserIssued(c) =>
        /\ "color" \in DOMAIN Params(c)
        /\ Given(c, "color") => Params(c).color = PyStr(Arg(c, "color").value)
        /\ ~Given(c, "color") => Params(c).color = PyStr("null")

C9_Witness ==
    \E c \in DOMAIN calls : UserIssued(c) /\ ~Given(c, "color") /\ Given(c, "vs")

\* the request the operation of call c shapes from c's own arguments
OwnRequest(c) ==
    IF IsOneGame(c) THEN ExportOneGameRequest(Arg(c, "game_id"))
    ELSE ExportGamesOfAUserRequest(calls[c].kwargs)

C10_Isolated ==
    /\ \A c \in DOMAIN calls :
          /\ Issued(c) /\ ~IsStub(c) => sent[c] = <<OwnRequest(c) @@ [on |-> client]>>
          /\ calls[c].pc \in {"returned", "raised"} /\ ~IsStub(c) =>
                /\ calls[c].result = responses[c]
                /\ calls[c].result.of = <<c, 1>>
    /\ \A c, d \in DOMAIN calls :
          /\ calls[c].op = calls[d].op /\ calls[c].kwargs = calls[d].kwargs
          /\ Issued(c) /\ Issued(d)
          => sent[c] = sent[d]

C10_StepsTouchOneCall ==
    /\ client' = client
    /\ \A c \in DOMAIN calls :
          /\ calls'[c].op = calls[c].op /\ calls'[c].kwargs = calls[c].kwargs
          /\ sent[c] # <<>> => sent'[c] = sent[c]
          /\ responses[c] # NoResponse => responses'[c] = responses[c]
    /\ Cardinality({c \in DOMAIN calls :
                      <<calls'[c], sent'[c], responses'[c]>>
                          # <<calls[c], sent[c], responses[c]>>}) <= 1

\* C10: concurrent calls on one Games object share no mutable state: each call's
\* request is shaped from its own arguments alone, each call ends with the
\* outcome of its own transport call, and no step changes the client reference,
\* another call's state, or a request or response already made.
C10_NoSharedState == []C10_Isolated /\ [][C10_StepsTouchOneCall]_vars

C10_Witness ==
    /\ calls[1].pc = "returned" /\ IsOneGame(1)
    /\ calls[2].pc = "await" /\ IsUserGames(2)
    /\ responses[2].t = "Response"
    /\ responses[2].status # calls[1].result.status

====
